---- MODULE Spec2Model ----
(***************************************************************************)
(* Model of the egui-cfg routing core: Grid, CostField and AStar           *)
(* (src/src/route.rs) and the port allocation / matching / edge cache of   *)
(* CfgView (src/src/view.rs).                                              *)
(*                                                                         *)
(* World coordinates are f32 in the source.  The model keeps them as       *)
(* integers counted in half world units, so that the centre of a cell of   *)
(* integer size is an integer.  Costs are f32 in the source; the model     *)
(* counts them in units of 1/One and keeps the three special values the    *)
(* code depends on: f32::MAX (absorbs every finite addend), f32::INFINITY  *)
(* and NaN (every comparison with it is false).                            *)
(***************************************************************************)
EXTENDS Integers, Sequences, FiniteSets, TLC

VARIABLES
    grid,        \* Grid {origin, cols, rows, cell}
    cost,        \* CostField::cost, row-major, 1-based here
    regs,        \* history: the rectangles registered so far, already expanded
    nops,        \* history: number of field registrations so far
    pc,          \* position of find_path: "field", "search", "done"
    startC,      \* find_path: the cell `start` snapped to
    endC,        \* find_path: the cell `end` snapped to
    cells,       \* find_path: HashMap<GridCoord, CellBase>
    pending,     \* find_path: Vec<GridCoord>
    seen,        \* find_path: HashSet<GridCoord>
    result,      \* find_path: its outcome
    popped,      \* history: the cells popped from the frontier, in order
    widths,      \* history: the widths passed to add_polyline_penalty so far
    graph,          \* CfgView::graph: [edges: sequence of <<source, target>>]
    style,          \* CfgView::style: [width] of a node rectangle (NodeStyle::size.x)
    layout,         \* what the layout stage returns for the graph: [placed, xs]
    block_rects,    \* CfgView::block_rects
    port_positions, \* CfgView::port_positions
    port_lines,     \* CfgView::port_lines
    cache,          \* the Vec persisted in the egui context under "cfg_edge_cache_v1"
    passes,         \* history: number of show() calls on this view
    views,          \* history: number of views constructed on this egui context
    produced,       \* history: what the last assign_port_lines pushed, with its edge
    reused,         \* history: the last draw_edges drew the cached polylines
    filled,         \* history: graph and rectangles of the pass that filled the cache
    handed,         \* get_cfg_layout: the graph it hands to the placement stage
    level           \* the leveling result: rows, back-edges, retained DAG edges

rvars == <<grid, cost, regs, nops, pc, startC, endC, cells, pending, seen, result, popped,
           widths>>
vvars == <<graph, style, layout, block_rects, port_positions, port_lines, cache, passes,
           views, produced, reused, filled>>
lvars == <<handed, level>>
vars == <<rvars, vvars, lvars>>

-----------------------------------------------------------------------------
(* f32 values the code relies on *)

\* 1.0f32 in cost units
One == 12
\* f32::MAX
FMAX == 1000000
\* f32::INFINITY
INF == 2000000
\* f32::NAN
NAN == 0 - 1

\* f32 addition on the values that occur: NaN is contagious, infinity and
\* f32::MAX absorb every addend the field can produce.
FAdd(a, b) ==
    IF a = NAN \/ b = NAN THEN NAN
    ELSE IF a = INF \/ b = INF THEN INF
    ELSE IF a = FMAX \/ b = FMAX THEN FMAX
    ELSE a + b

\* f32 `<`: false when either side is NaN
FLess(a, b) == a # NAN /\ b # NAN /\ a < b

FloorDiv(a, b) == a \div b

Max(a, b) == IF a >= b THEN a ELSE b
Abs(a) == IF a >= 0 THEN a ELSE 0 - a

\* f32::sqrt on a non-negative integer, rounded down to the model's unit
ISqrt(n) == CHOOSE r \in 0..n : r * r <= n /\ (r + 1) * (r + 1) > n

\* `as usize` of a floored f32: negative values saturate to 0
AsUsize(a) == Max(a, 0)

-----------------------------------------------------------------------------
(* egui::Rect, in half units *)

MkRect(x0, y0, x1, y1) == [minx |-> x0, miny |-> y0, maxx |-> x1, maxy |-> y1]

RectWidth(r) == r.maxx - r.minx
RectHeight(r) == r.maxy - r.miny

\* Rect::expand(margin)
RectExpand(r, m) == MkRect(r.minx - m, r.miny - m, r.maxx + m, r.maxy + m)

\* Rect::contains(p): inclusive on both sides
RectContains(r, p) ==
    /\ r.minx <= p[1] /\ p[1] <= r.maxx
    /\ r.miny <= p[2] /\ p[2] <= r.maxy

\* Rect::distance_to_pos(p), in half units
RectDistance(r, p) ==
    LET dx == IF r.minx > p[1] THEN r.minx - p[1]
              ELSE IF p[1] > r.maxx THEN p[1] - r.maxx ELSE 0
        dy == IF r.miny > p[2] THEN r.miny - p[2]
              ELSE IF p[2] > r.maxy THEN p[2] - r.maxy ELSE 0
    IN ISqrt(dx * dx + dy * dy)

-----------------------------------------------------------------------------
(* Grid *)

\* Grid::from_scene(scene, cell); g.cell is in world units, origin in half units
from_scene(scene, cell) ==
    [ cols |-> AsUsize(FloorDiv(RectWidth(scene), 2 * cell)),
      rows |-> AsUsize(FloorDiv(RectHeight(scene), 2 * cell)),
      ox   |-> FloorDiv(scene.minx, 2 * cell) * (2 * cell),
      oy   |-> FloorDiv(scene.miny, 2 * cell) * (2 * cell),
      cell |-> cell ]

\* the cells of a grid
GridCells(g) == (0..(g.cols - 1)) \X (0..(g.rows - 1))

\* isize::clamp(lo, hi) panics when lo > hi
ClampPanics(lo, hi) == lo > hi
Clamp(v, lo, hi) == IF v < lo THEN lo ELSE IF v > hi THEN hi ELSE v

\* Grid::to_cell panics exactly when one of its two clamps does
to_cell_panics(g) == ClampPanics(0, g.cols - 1) \/ ClampPanics(0, g.rows - 1)

\* to_cell that rounds to the nearest cell instead of flooring
to_cell_rounding(g, p) ==
    << Clamp(FloorDiv(p[1] - g.ox + g.cell, 2 * g.cell), 0, g.cols - 1),
       Clamp(FloorDiv(p[2] - g.oy + g.cell, 2 * g.cell), 0, g.rows - 1) >>

\* Grid::to_cell(p): floor of the origin-relative position over the cell size,
\* clamped into the grid
to_cell(g, p) ==
    << Clamp(FloorDiv(p[1] - g.ox, 2 * g.cell), 0, g.cols - 1),
       Clamp(FloorDiv(p[2] - g.oy, 2 * g.cell), 0, g.rows - 1) >>

\* Grid::to_index
to_index(g, c) == c[2] * g.cols + c[1]

\* Grid::cell_center: origin + (x + 0.5) * cell, in half units
cell_center(g, c) ==
    << g.ox + (2 * c[1] + 1) * g.cell, g.oy + (2 * c[2] + 1) * g.cell >>

Sign(a) == IF a > 0 THEN 1 ELSE IF a < 0 THEN 0 - 1 ELSE 0

\* Grid::get_direction
get_direction(a, b) == << Sign(b[1] - a[1]), Sign(b[2] - a[2]) >>

\* Grid::cardinal_neighbors, in the order the code pushes them
cardinal_neighbors(g, c) ==
    (IF c[1] + 1 < g.cols THEN << <<c[1] + 1, c[2]>> >> ELSE << >>)
    \o (IF c[1] >= 1 THEN << <<c[1] - 1, c[2]>> >> ELSE << >>)
    \o (IF c[2] + 1 < g.rows THEN << <<c[1], c[2] + 1>> >> ELSE << >>)
    \o (IF c[2] >= 1 THEN << <<c[1], c[2] - 1>> >> ELSE << >>)

-----------------------------------------------------------------------------
(* CostField *)

\* CostField::new: every cell at 1.0
CostFieldNew(g) == [i \in 1..(g.cols * g.rows) |-> One]

\* Option::None of cost_at
CostNone == 0 - 2

\* CostField::cost_at: None when the index is out of range
cost_at(g, f, c) ==
    IF to_index(g, c) + 1 \in DOMAIN f THEN f[to_index(g, c) + 1] ELSE CostNone

\* the cell of a 1-based index
CellOfIndex(g, i) == << (i - 1) % g.cols, (i - 1) \div g.cols >>

\* a falloff with the wrong sign
Falloff_negative(g, d) == 0 - ((3 * One * Max(6 * g.cell - d, 0)) \div (6 * g.cell))

\* the falloff added to a cell at distance d (half units) of a block:
\* 3.0 * max(cell * 3 - d, 0) / (cell * 3)
Falloff(g, d) == (3 * One * Max(6 * g.cell - d, 0)) \div (6 * g.cell)

\* CostField::add_block_rect(rect, margin)
add_block_rect(g, f, rect, margin) ==
    LET r == RectExpand(rect, margin)
    IN [i \in DOMAIN f |->
          LET p == cell_center(g, CellOfIndex(g, i))
          IN IF RectContains(r, p) THEN FMAX
             ELSE FAdd(f[i], Falloff(g, RectDistance(r, p)))]

\* CostField::distance_point_to_segment(p, a, b), squared and exact, as the
\* fraction num/den; den = 0 stands for the NaN the code computes when a = b
\* (0/0 in the projection, which clamp() keeps)
distance_point_to_segment(p, a, b) ==
    LET apx == p[1] - a[1]
        apy == p[2] - a[2]
        abx == b[1] - a[1]
        aby == b[2] - a[2]
        dot == apx * abx + apy * aby
        len == abx * abx + aby * aby
    IN IF len = 0 THEN [num |-> 0, den |-> 0]
       ELSE IF dot <= 0 THEN [num |-> apx * apx + apy * apy, den |-> 1]
       ELSE IF dot >= len
            THEN [num |-> (p[1] - b[1]) * (p[1] - b[1]) + (p[2] - b[2]) * (p[2] - b[2]),
                  den |-> 1]
       ELSE [num |-> (apx * apx + apy * apy) * len - dot * dot, den |-> len]

\* `d <= width`, decided exactly; false when d is NaN and when width < 0
WithinWidth(d, width) ==
    d.den # 0 /\ width >= 0 /\ d.num <= width * width * d.den

\* 5.0 * (width - d) / width; d is rounded down to the half unit here.
\* width = 0 (then d = 0) is 0/0
SegmentPenalty(width, d) ==
    IF width = 0 THEN NAN
    ELSE (5 * One * Max(width - ISqrt(d.num \div d.den), 0)) \div width

\* one segment of add_polyline_penalty applied to the whole field
AddSegment(g, f, a, b, width) ==
    [i \in DOMAIN f |->
        LET d == distance_point_to_segment(cell_center(g, CellOfIndex(g, i)), a, b)
        IN IF WithinWidth(d, width) THEN FAdd(f[i], SegmentPenalty(width, d)) ELSE f[i]]

RECURSIVE AddSegments(_, _, _, _, _)
AddSegments(g, f, positions, width, k) ==
    IF k + 1 > Len(positions) THEN f
    ELSE AddSegments(g, AddSegment(g, f, positions[k], positions[k + 1], width),
                     positions, width, k + 1)

\* CostField::add_polyline_penalty(positions, width)
add_polyline_penalty(g, f, positions, width) ==
    IF Len(positions) < 2 THEN f ELSE AddSegments(g, f, positions, width, 1)

-----------------------------------------------------------------------------
(* AStar *)

\* CellBase::new(); parent is << >> for None and <<c>> for Some(c)
CellBaseNew == [g |-> INF, h |-> 0, parent |-> << >>, is_pending |-> FALSE]

\* CellBase::f
CellF(c) == FAdd(c.g, c.h)

\* AStar::manhattan, in cells
manhattan(a, b) == Abs(a[1] - b[1]) + Abs(a[2] - b[2])

\* the fixed turn penalty of find_path (1.0)
TurnPenalty == One

\* the scan of pop_best: the first index whose f is strictly below every
\* earlier one, index 1 when no f is below infinity
RECURSIVE BestIndex(_, _, _, _, _)
BestIndex(pend, cs, i, best_i, best_f) ==
    IF i > Len(pend) THEN best_i
    ELSE LET f == IF pend[i] \in DOMAIN cs THEN CellF(cs[pend[i]]) ELSE INF
         IN IF FLess(f, best_f)
            THEN BestIndex(pend, cs, i + 1, i, f)
            ELSE BestIndex(pend, cs, i + 1, best_i, best_f)

\* Vec::swap_remove(i): the last element takes the place of the removed one
SwapRemove(s, i) ==
    [k \in 1..(Len(s) - 1) |-> IF k = i THEN s[Len(s)] ELSE s[k]]

\* pop_best that takes the last pending cell instead of the best one
pop_best_last(pend, cs) == Len(pend)

\* AStar::pop_best: the index it removes
pop_best(pend, cs) == BestIndex(pend, cs, 1, 1, INF)

\* the turn penalty of the step cur -> n: charged when Some(step_dir) differs
\* from incoming_dir, which is None for a cell without parent
TurnPen(cs, cur, n) ==
    IF cs[cur].parent = << >> THEN TurnPenalty
    ELSE IF get_direction(cur, n) # get_direction(cs[cur].parent[1], cur)
         THEN TurnPenalty
         ELSE 0

\* candidate_cost of the step cur -> n
CandidateCost(g, f, cs, cur, n) ==
    FAdd(FAdd(cs[cur].g, cost_at(g, f, n)), TurnPen(cs, cur, n))

\* the body of the neighbour loop of find_path for one neighbour n of cur;
\* st = [cells, pending, seen]
RelaxNeighbor(g, f, st, cur, n, end) ==
    IF cost_at(g, f, n) = CostNone \/ cost_at(g, f, n) = FMAX THEN st
    ELSE LET cs1 == IF n \in st.seen THEN st.cells
                    ELSE [c \in DOMAIN st.cells \cup {n} |->
                            IF c = n THEN CellBaseNew ELSE st.cells[c]]
             seen1 == st.seen \cup {n}
             cand == CandidateCost(g, f, cs1, cur, n)
         IN IF FLess(cand, cs1[n].g)
            THEN [cells |-> [cs1 EXCEPT ![n] =
                               [g |-> cand, h |-> manhattan(n, end) * One,
                                parent |-> <<cur>>, is_pending |-> TRUE]],
                  pending |-> IF cs1[n].is_pending THEN st.pending
                              ELSE Append(st.pending, n),
                  seen |-> seen1]
            ELSE [cells |-> cs1, pending |-> st.pending, seen |-> seen1]

RECURSIVE RelaxAll(_, _, _, _, _, _, _)
RelaxAll(g, f, st, cur, nbrs, k, end) ==
    IF k > Len(nbrs) THEN st
    ELSE CHOOSE r \in {RelaxAll(g, f, st1, cur, nbrs, k + 1, end) :
                          st1 \in {RelaxNeighbor(g, f, st, cur, nbrs[k], end)}} : TRUE

\* the parent chain from c back to a cell without parent, c first
RECURSIVE ParentChain(_, _)
ParentChain(cs, c) ==
    IF c \in DOMAIN cs /\ cs[c].parent # << >>
    THEN <<c>> \o ParentChain(cs, cs[c].parent[1])
    ELSE <<c>>

\* a reversal that leaves the sequence as it is
Reverse_identity(s) == s

\* Vec::reverse
Reverse(s) == [k \in 1..Len(s) |-> s[Len(s) + 1 - k]]

\* an early return that only rejects an out-of-range goal
GoalRejected_nocheck(g, f, e) == cost_at(g, f, e) = CostNone

\* the early return of find_path: `cost_at(end)? == f32::MAX`
GoalRejected(g, f, e) == cost_at(g, f, e) = CostNone \/ cost_at(g, f, e) = FMAX

\* the outcomes of find_path
NoResult == [tag |-> "running", cells |-> << >>, path |-> << >>]
NoPath == [tag |-> "none", cells |-> << >>, path |-> << >>]
Panic == [tag |-> "panic", cells |-> << >>, path |-> << >>]
SomePath(g, cellpath) ==
    [tag |-> "some", cells |-> cellpath,
     path |-> [k \in 1..Len(cellpath) |-> cell_center(g, cellpath[k])]]

-----------------------------------------------------------------------------
(* CfgView: port allocation, port matching, edge cache *)

\* number of nodes of a graph; NodeIndex is 1..NumNodes
NumNodes == 3
\* largest number of edges of a graph
MaxEdges == 2

Nodes == 1..NumNodes

\* PORT_OFFSET (4.0), in half units
PORT_OFFSET == 8

PortSlot(n, i, k) == [node |-> n, slot |-> i, kind |-> k]

Source(g, e) == g.edges[e][1]
Target(g, e) == g.edges[e][2]

\* the edge indices, newest first: the order in which petgraph walks the
\* edge list of a node
NewestFirst(g) == [k \in 1..Len(g.edges) |-> Len(g.edges) + 1 - k]

\* graph.edges_directed(n, Outgoing); self-loops are included
edges_out(g, n) == SelectSeq(NewestFirst(g), LAMBDA e : Source(g, e) = n)

\* graph.edges_directed(n, Incoming); self-loops are included
edges_in(g, n) == SelectSeq(NewestFirst(g), LAMBDA e : Target(g, e) = n)

\* slice::sort_by: a stable sort of s under the strict weak order Less
StableSort(s, Less(_, _)) ==
    LET n == Len(s)
        rank(i) == Cardinality({j \in 1..n :
                        Less(s[j], s[i]) \/ (~Less(s[i], s[j]) /\ j < i)}) + 1
    IN [r \in 1..n |-> s[CHOOSE i \in 1..n : rank(i) = r]]

\* the elements of a finite set in the total order Less
SortSet(S, Less(_, _)) ==
    LET rank(a) == Cardinality({b \in S : Less(b, a)}) + 1
    IN [r \in 1..Cardinality(S) |-> CHOOSE a \in S : rank(a) = r]

RECURSIVE Flatten(_, _)
Flatten(ss, k) == IF k > Len(ss) THEN << >> ELSE ss[k] \o Flatten(ss, k + 1)

\* a fraction t that forgets the port index
PortT_const(i, count) == 1

\* the fraction t of layout_ports_on_rect for port i of count, as
\* numerator over count + 1
PortT(i, count) == i + 1

\* layout_ports_on_rect(rect, kind, count)[i]: left.lerp(right, t) on the top
\* (Input) or bottom (Output) side; x is the fraction xn / xd of a half unit
layout_ports_on_rect(rect, kind, count, i) ==
    [xn |-> rect.minx * (count + 1) + PortT(i, count) * (rect.maxx - rect.minx),
     xd |-> count + 1,
     y  |-> IF kind = "Input" THEN rect.miny ELSE rect.maxy]

\* graph.neighbors_directed(node, Incoming).count(): one per incoming edge
inputs(g, n) == Len(edges_in(g, n))

\* graph.neighbors_directed(node, Outgoing).count(): one per outgoing edge
outputs(g, n) == Len(edges_out(g, n))

\* the ports assign_port_positions inserts: one per incoming and outgoing
\* edge of every node that has a rectangle
AllocatedSlots(g, rects) ==
    UNION {{PortSlot(n, i, "Input") : i \in 0..(inputs(g, n) - 1)}
             \cup {PortSlot(n, i, "Output") : i \in 0..(outputs(g, n) - 1)}
           : n \in Nodes \cap DOMAIN rects}

\* the position assign_port_positions gives a port: moved PORT_OFFSET away
\* from the rectangle
AllocatedPos(g, rects, s) ==
    LET count == IF s.kind = "Input" THEN inputs(g, s.node) ELSE outputs(g, s.node)
        pos == layout_ports_on_rect(rects[s.node], s.kind, count, s.slot)
    IN [pos EXCEPT !.y = IF s.kind = "Input" THEN @ - PORT_OFFSET ELSE @ + PORT_OFFSET]

\* CfgView::assign_port_positions: inserts, never removes
assign_port_positions(g, rects, pp) ==
    [s \in DOMAIN pp \cup AllocatedSlots(g, rects) |->
        IF s \in AllocatedSlots(g, rects) THEN AllocatedPos(g, rects, s) ELSE pp[s]]

\* center_x of assign_port_lines, doubled; 0.0 for a node without rectangle
center_x(rects, n) ==
    IF n \in DOMAIN rects THEN rects[n].minx + rects[n].maxx ELSE 0

\* sorted_ports of assign_port_lines: the ports of a node and kind sorted by
\* x; ports at the same x keep the iteration order h of the HashMap
sorted_ports(pp, h, n, kind) ==
    SortSet({s \in DOMAIN pp : s.node = n /\ s.kind = kind},
            LAMBDA a, b :
                \/ pp[a].xn * pp[b].xd < pp[b].xn * pp[a].xd
                \/ /\ pp[a].xn * pp[b].xd = pp[b].xn * pp[a].xd
                   /\ h[a.slot] < h[b.slot])

\* outgoing edges left in the order petgraph walks them
sorted_out_edges_unsorted(g, rects, n) == edges_out(g, n)

\* sorted_out_edges: the outgoing edges of n by the centre of their target
sorted_out_edges(g, rects, n) ==
    StableSort(edges_out(g, n),
               LAMBDA a, b : center_x(rects, Target(g, a)) < center_x(rects, Target(g, b)))

\* incoming: the incoming edges of n by the centre of their source
sorted_incoming(g, rects, n) ==
    StableSort(edges_in(g, n),
               LAMBDA a, b : center_x(rects, Source(g, a)) < center_x(rects, Source(g, b)))

\* a position that is always the first
PositionOf_first(s, e) == 0

\* a position that counts from one
PositionOf_onebased(s, e) ==
    IF \E i \in 1..Len(s) : s[i] = e
    THEN CHOOSE i \in 1..Len(s) : s[i] = e /\ \A j \in 1..(i - 1) : s[j] # e
    ELSE 0

\* incoming.iter().position(|(e, _)| e == edge).unwrap_or(0), zero-based
PositionOf(s, e) ==
    IF \E i \in 1..Len(s) : s[i] = e
    THEN (CHOOSE i \in 1..Len(s) : s[i] = e /\ \A j \in 1..(i - 1) : s[j] # e) - 1
    ELSE 0

\* the body of the inner loop of assign_port_lines for the k-th sorted
\* outgoing edge of n: the line it pushes, or nothing
LineOfEdge(g, rects, pp, h, n, k) ==
    LET ports == sorted_ports(pp, h, n, "Output")
        e == sorted_out_edges(g, rects, n)[k]
        target_ports == sorted_ports(pp, h, Target(g, e), "Input")
        target_port == PositionOf(sorted_incoming(g, rects, Target(g, e)), e)
    IN IF k > Len(ports) THEN << >>
       ELSE IF target_ports = << >> THEN << >>
       ELSE IF target_port + 1 > Len(target_ports) THEN << >>
       ELSE << [edge |-> e, from |-> ports[k], to |-> target_ports[target_port + 1]] >>

\* the body of the outer loop of assign_port_lines for node n
LinesOfNode(g, rects, pp, h, n) ==
    IF sorted_ports(pp, h, n, "Output") = << >> \/ edges_out(g, n) = << >> THEN << >>
    ELSE Flatten([k \in 1..Len(sorted_out_edges(g, rects, n)) |->
                     LineOfEdge(g, rects, pp, h, n, k)], 1)

\* CfgView::assign_port_lines: what it pushes, in order, each with its edge
assign_port_lines(g, rects, pp, h) ==
    Flatten([n \in 1..NumNodes |-> LinesOfNode(g, rects, pp, h, n)], 1)

\* PortLine {from, to}
PortLine(l) == [from |-> l.from, to |-> l.to]

\* S contains both ends of every edge that has one end in S
Closed(g, S) ==
    \A e \in 1..Len(g.edges) : (Source(g, e) \in S) <=> (Target(g, e) \in S)

\* the nodes weakly connected to root: the least closed set that holds it
Component(g, root) ==
    {n \in Nodes : \A S \in SUBSET Nodes : (root \in S /\ Closed(g, S)) => n \in S}

\* the rectangle of a node of the given size centred at (x, y):
\* get_block_rectangle, then set_center
BlockRect(width, height, x, y) ==
    MkRect(x - width \div 2, y - height \div 2,
           x - width \div 2 + width, y - height \div 2 + height)

\* Rect::union of two rectangles
RectUnion(a, b) ==
    MkRect(IF a.minx <= b.minx THEN a.minx ELSE b.minx,
           IF a.miny <= b.miny THEN a.miny ELSE b.miny,
           Max(a.maxx, b.maxx), Max(a.maxy, b.maxy))

\* Rect::NOTHING: min at +infinity, max at -infinity
RectNothing == MkRect(INF, INF, 0 - INF, 0 - INF)

RECURSIVE UnionOfRects(_, _)
UnionOfRects(rects, S) ==
    IF S = {} THEN RectNothing
    ELSE LET n == CHOOSE m \in S : TRUE
         IN RectUnion(rects[n], UnionOfRects(rects, S \ {n}))

\* CfgView::get_world_rect(None): the union of the block rectangles, expanded
\* by 100.0
get_world_rect(rects) == RectExpand(UnionOfRects(rects, DOMAIN rects), 200)

\* the loop of build_field over block_rects.values(), taken in the order
\* given: add_block_rect(rect, 5.0) for each
RECURSIVE BlockAll(_, _, _, _, _)
BlockAll(g, f, rects, order, k) ==
    IF k > Len(order) THEN f
    ELSE BlockAll(g, add_block_rect(g, f, rects[order[k]], 10), rects, order, k + 1)

\* CfgView::build_field(scene): a grid of cell size 3.0 over the scene with
\* every block rectangle blocked with margin 5.0
build_field(rects, order, scene) ==
    LET g == from_scene(scene, 3)
    IN [grid |-> g, cost |-> BlockAll(g, CostFieldNew(g), rects, order, 1)]

-----------------------------------------------------------------------------
(* Bounds and inputs of the routing specification *)

\* largest scene width and height, in world units
MaxSceneW == 3
MaxSceneH == 2
\* largest number of add_block_rect / add_polyline_penalty calls on a field
MaxOps == 2

\* cell sizes, in world units
CellSizes == {1, 2}
\* scene min corners (x = y), in half units: negative and not aligned to a cell
SceneMins == {0 - 3}

Scenes ==
    {MkRect(m, m, m + 2 * w, m + 2 * h) : m \in SceneMins, w \in 0..MaxSceneW, h \in 0..MaxSceneH}

\* block rectangles offered to add_block_rect, relative to the grid origin:
\* a point on a cell centre and a vertical wall through a column of centres
BlockRects(g) ==
    {MkRect(g.ox + a, g.oy + 1, g.ox + a, g.oy + 1 + h) : a \in {1, 3}, h \in {0, 4}}
Margins == {0, 2}

\* polylines offered to add_polyline_penalty: too short, degenerate (a = b),
\* one segment, two segments
Polylines(g) ==
    LET p1 == <<g.ox + 1, g.oy + 1>>
        p2 == <<g.ox + 3, g.oy + 1>>
        p3 == <<g.ox + 3, g.oy + 4>>
    IN {<<p1>>, <<p1, p1>>, <<p1, p2>>, <<p1, p2, p3>>}
Widths == {0, 2}

\* positions offered to find_path: every cell centre, a cell corner, and one
\* position outside the grid on either side
Positions(g) ==
    {cell_center(g, c) : c \in GridCells(g)}
    \cup {<<g.ox, g.oy>>, <<g.ox - 1, g.oy - 3>>,
          <<g.ox + 2 * g.cell * g.cols + 1, g.oy + 2 * g.cell * g.rows>>}

-----------------------------------------------------------------------------
(* The routing specification: build a field, then run find_path on it *)

\* the view variables while no view is modelled
NoView ==
    /\ graph = [edges |-> << >>]
    /\ style = [width |-> 0]
    /\ layout = [placed |-> {}, xs |-> << >>, y |-> 0]
    /\ block_rects = << >>
    /\ port_positions = << >>
    /\ port_lines = << >>
    /\ cache = [present |-> FALSE, lines |-> << >>]
    /\ passes = 0
    /\ views = 0
    /\ produced = << >>
    /\ reused = FALSE
    /\ filled = << >>

\* get_cfg_layout not called yet
NotHanded == [called |-> FALSE, nodes |-> {}, edges |-> << >>]
\* the leveling not run yet
NoLevel == [status |-> "none", rows |-> << >>, back |-> {}, dag |-> {}]

\* the layout variables while no layout call is modelled
NoLayout ==
    /\ handed = NotHanded
    /\ level = NoLevel

Init ==
    /\ NoView
    /\ NoLayout
    /\ \E scene \in Scenes, cell \in CellSizes : grid = from_scene(scene, cell)
    /\ cost = CostFieldNew(grid)
    /\ regs = {}
    /\ nops = 0
    /\ pc = "field"
    /\ startC = <<0, 0>>
    /\ endC = <<0, 0>>
    /\ cells = << >>
    /\ pending = << >>
    /\ seen = {}
    /\ result = NoResult
    /\ popped = << >>
    /\ widths = {}

\* CostField::add_block_rect
AddBlockRect ==
    /\ pc = "field"
    /\ nops < MaxOps
    /\ \E rect \in BlockRects(grid), margin \in Margins :
         /\ cost' = add_block_rect(grid, cost, rect, margin)
         /\ regs' = regs \cup {RectExpand(rect, margin)}
    /\ nops' = nops + 1
    /\ UNCHANGED <<grid, pc, startC, endC, cells, pending, seen, result, popped, widths>>
    /\ UNCHANGED <<vvars, lvars>>

\* CostField::add_polyline_penalty
AddPolylinePenalty ==
    /\ pc = "field"
    /\ nops < MaxOps
    /\ \E positions \in Polylines(grid), width \in Widths :
         /\ cost' = add_polyline_penalty(grid, cost, positions, width)
         /\ widths' = widths \cup {width}
    /\ nops' = nops + 1
    /\ UNCHANGED <<grid, regs, pc, startC, endC, cells, pending, seen, result, popped>>
    /\ UNCHANGED <<vvars, lvars>>

\* AStar::find_path up to the loop: snap both ends, reject a blocked goal,
\* seed the frontier with the start cell
FindPath ==
    /\ pc = "field"
    /\ \E start \in Positions(grid), end \in Positions(grid) :
         IF to_cell_panics(grid)
         THEN /\ result' = Panic
              /\ pc' = "done"
              /\ UNCHANGED <<startC, endC, cells, pending, seen>>
         ELSE LET s == to_cell(grid, start)
                  e == to_cell(grid, end)
              IN /\ startC' = s
                 /\ endC' = e
                 /\ IF GoalRejected(grid, cost, e)
                    THEN /\ result' = NoPath
                         /\ pc' = "done"
                         /\ UNCHANGED <<cells, pending, seen>>
                    ELSE /\ cells' = [c \in {s} |->
                                        [g |-> 0, h |-> manhattan(s, e) * One,
                                         parent |-> << >>, is_pending |-> TRUE]]
                         /\ pending' = <<s>>
                         /\ seen' = {s}
                         /\ pc' = "search"
                         /\ UNCHANGED result
    /\ UNCHANGED <<grid, cost, regs, nops, popped, widths>>
    /\ UNCHANGED <<vvars, lvars>>

\* one iteration of the loop of find_path: pop the best cell, return the
\* path when it is the goal, relax its neighbours otherwise
Step ==
    /\ pc = "search"
    /\ pending # << >>
    /\ \E i \in {pop_best(pending, cells)} :
       \E cur \in {pending[i]} :
       \E pend1 \in {SwapRemove(pending, i)} :
       \E cs1 \in {IF cur \in DOMAIN cells
                   THEN [cells EXCEPT ![cur].is_pending = FALSE] ELSE cells} :
          /\ popped' = Append(popped, cur)
          /\ IF cur = endC
             THEN /\ result' = SomePath(grid, Reverse(ParentChain(cs1, cur)))
                  /\ pc' = "done"
                  /\ cells' = cs1
                  /\ pending' = pend1
                  /\ UNCHANGED seen
             ELSE \E st \in {RelaxAll(grid, cost,
                                      [cells |-> cs1, pending |-> pend1, seen |-> seen],
                                      cur, cardinal_neighbors(grid, cur), 1, endC)} :
                     /\ cells' = st.cells
                     /\ pending' = st.pending
                     /\ seen' = st.seen
                     /\ UNCHANGED <<result, pc>>
    /\ UNCHANGED <<grid, cost, regs, nops, startC, endC, widths>>
    /\ UNCHANGED <<vvars, lvars>>

\* a loop that does not leave when the frontier is empty
Exhaust_spin ==
    /\ pc = "search"
    /\ pending = << >>
    /\ UNCHANGED vars

\* the loop of find_path ends with an empty frontier: no path
Exhaust ==
    /\ pc = "search"
    /\ pending = << >>
    /\ result' = NoPath
    /\ pc' = "done"
    /\ UNCHANGED <<grid, cost, regs, nops, startC, endC, cells, pending, seen, popped,
                   widths>>
    /\ UNCHANGED <<vvars, lvars>>

Next == AddBlockRect \/ AddPolylinePenalty \/ FindPath \/ Step \/ Exhaust

Spec == Init /\ [][Next]_vars

\* ENABLED <<Step>>_vars: the loop condition holds (an iteration always pops
\* a cell, so it always changes the state)
StepEnabled == pc = "search" /\ pending # << >>

\* find_path runs on one thread from its call to its return: once called, the
\* loop keeps iterating and leaves when its condition fails.  The fairness
\* is WF_vars(Step) /\ WF_vars(Exhaust), with WF_vars(Step) written out as
\* []<>~ENABLED <<Step>>_vars \/ []<><<Step>>_vars
SpecLive ==
    /\ Init /\ [][Next]_vars
    /\ ([]<>(~StepEnabled) \/ []<><<Step>>_vars)
    /\ WF_vars(Exhaust)

-----------------------------------------------------------------------------
(* The view specification: one CfgView shown repeatedly *)

\* largest number of show() calls on one view
MaxPasses == 2

\* node rectangle widths (NodeStyle::size.x), in half units
NodeWidths == {0, 8}
\* node rectangle heights (header, padding and the measured body text), in
\* half units
NodeHeights == {4, 6}
\* centres (x per node, one y) the layout stage places nodes at, in half units
LayoutXs == {0, 6}
LayoutYs == {0}

RECURSIVE SeqsUpTo(_, _)
SeqsUpTo(S, n) ==
    IF n = 0 THEN {<< >>}
    ELSE LET shorter == SeqsUpTo(S, n - 1)
         IN shorter \cup {Append(q, x) : q \in shorter, x \in S}

\* the edges graphs are built from: a fan-out (1->2, 1->3), a fan-in (1->3,
\* 2->3) and a self-loop (2->2)
EdgePairs == {<<1, 2>>, <<1, 3>>, <<2, 3>>, <<2, 2>>}

\* the graphs on Nodes with at most n of these edges, in any order of
\* insertion; an edge may occur twice (parallel edges)
Graphs(n) == {[edges |-> es] : es \in SeqsUpTo(EdgePairs, n)}

\* the iteration orders of the port HashMap, as a rank per slot index; the
\* order is only observable when two ports of a node share their x
HashOrders(pp) ==
    IF \E a, b \in DOMAIN pp :
          /\ a # b /\ a.node = b.node /\ a.kind = b.kind
          /\ pp[a].xn * pp[b].xd = pp[b].xn * pp[a].xd
    THEN Permutations(0..(MaxEdges - 1))
    ELSE {[i \in 0..(MaxEdges - 1) |-> i]}

\* the routing variables while no search is modelled
NoRoute ==
    /\ grid = [cols |-> 0, rows |-> 0, ox |-> 0, oy |-> 0, cell |-> 1]
    /\ cost = << >>
    /\ regs = {}
    /\ nops = 0
    /\ pc = "view"
    /\ startC = <<0, 0>>
    /\ endC = <<0, 0>>
    /\ cells = << >>
    /\ pending = << >>
    /\ seen = {}
    /\ result = NoResult
    /\ popped = << >>
    /\ widths = {}

\* what get_cfg_layout can return for a graph: the nodes of one connected
\* component (info[0] of the layout stage), each with a centre
Layouts(g) ==
    UNION {{[placed |-> Component(g, root), xs |-> xs, y |-> y] :
                xs \in [Component(g, root) -> LayoutXs], y \in LayoutYs} : root \in Nodes}

\* CfgView::new(graph, config, selected, style)
ViewNew(g, w, lay) ==
    /\ graph = g
    /\ style = [width |-> w]
    /\ layout = lay
    /\ block_rects = << >>
    /\ port_positions = << >>
    /\ port_lines = << >>
    /\ passes = 0
    /\ produced = << >>
    /\ reused = FALSE

\* a view on a fresh egui context
InitView ==
    /\ NoRoute
    /\ NoLayout
    /\ \E g \in Graphs(MaxEdges), w \in NodeWidths :
         \E lay \in Layouts(g) : ViewNew(g, w, lay)
    /\ cache = [present |-> FALSE, lines |-> << >>]
    /\ filled = << >>
    /\ views = 1

\* the rectangles after assign_and_draw_blocks: one insert per node of the
\* layout; the rectangles of earlier passes stay in the map
PlacedRects(rects, st, lay, height) ==
    [n \in DOMAIN rects \cup lay.placed |->
        IF n \in lay.placed THEN BlockRect(st.width, height, lay.xs[n], lay.y)
        ELSE rects[n]]

\* the polyline find_path returns for a port line, kept as its two end ports'
\* positions
Routed(pp, pl) == [poly |-> <<pp[pl.from], pp[pl.to]>>, pl |-> pl]

\* CfgView::show: assign_and_draw_blocks, assign_port_positions,
\* assign_port_lines, draw_edges (draw_ports changes nothing)
Show ==
    /\ passes < MaxPasses
    /\ \E height \in NodeHeights :
       \E rects \in {PlacedRects(block_rects, style, layout, height)} :
       \E pp \in {assign_port_positions(graph, rects, port_positions)} :
       \E h \in HashOrders(pp) :
       \E pushed \in {assign_port_lines(graph, rects, pp, h)} :
       \E lines \in {port_lines \o [k \in 1..Len(pushed) |-> PortLine(pushed[k])]} :
            /\ block_rects' = rects
            /\ port_positions' = pp
            /\ produced' = pushed
            /\ port_lines' = lines
            /\ IF cache.present
               THEN /\ reused' = TRUE
                    /\ UNCHANGED <<cache, filled>>
               ELSE /\ reused' = FALSE
                    /\ \E ok \in SUBSET (1..Len(lines)) :
                         cache' = [present |-> TRUE,
                                   lines |-> [k \in 1..Cardinality(ok) |->
                                       Routed(pp, lines[CHOOSE i \in ok :
                                           Cardinality({j \in ok : j < i}) = k - 1])]]
                    /\ filled' = [graph |-> graph, rects |-> rects]
    /\ passes' = passes + 1
    /\ UNCHANGED <<graph, style, layout, views>>
    /\ UNCHANGED <<rvars, lvars>>

NextView == Show

SpecView == InitView /\ [][NextView]_vars

-----------------------------------------------------------------------------
(* The cache specification: several views shown on one egui context *)

\* largest number of views constructed on one egui context
MaxViews == 2
\* largest number of edges of a graph in the cache specification
MaxCacheEdges == 1

InitCache ==
    /\ NoRoute
    /\ NoLayout
    /\ \E g \in Graphs(MaxCacheEdges), w \in NodeWidths :
         \E lay \in Layouts(g) : ViewNew(g, w, lay)
    /\ cache = [present |-> FALSE, lines |-> << >>]
    /\ filled = << >>
    /\ views = 1

\* the view is dropped and CfgView::new builds another one, on any graph; the
\* egui context and what it persists stay
NewView ==
    /\ views < MaxViews
    /\ \E g \in Graphs(MaxCacheEdges), w \in NodeWidths :
         \E lay \in Layouts(g) :
            /\ graph' = g
            /\ style' = [width |-> w]
            /\ layout' = lay
    /\ block_rects' = << >>
    /\ port_positions' = << >>
    /\ port_lines' = << >>
    /\ passes' = 0
    /\ produced' = << >>
    /\ reused' = FALSE
    /\ views' = views + 1
    /\ UNCHANGED <<cache, filled>>
    /\ UNCHANGED <<rvars, lvars>>

NextCache == Show \/ NewView

SpecCache == InitCache /\ [][NextCache]_vars

-----------------------------------------------------------------------------
(* Claims on the routing specification *)

\* the field is the one CostField::new built: every cell at the baseline
Uniform == \A i \in DOMAIN cost : cost[i] = One

\* C1: every cell on a path returned by find_path, the start cell and the
\* goal cell included, has a cost different from f32::MAX.
C1_PathAvoidsBlockedCells ==
    result.tag = "some" =>
        \A k \in 1..Len(result.cells) : cost_at(grid, cost, result.cells[k]) # FMAX

\* C4: on a field with every cell at the baseline cost, the number of steps
\* of a returned path is the Manhattan distance between start and end cell.
C4_UniformPathIsManhattan ==
    (result.tag = "some" /\ Uniform) =>
        Len(result.cells) - 1 = manhattan(startC, endC)

C4_Witness ==
    /\ result.tag = "some"
    /\ Uniform
    /\ Abs(startC[1] - endC[1]) >= 2
    /\ Abs(startC[2] - endC[2]) >= 1

\* C3: when the cell the end position snaps to is impassable, find_path
\* returns None without popping any cell, whatever the start position.
C3_BlockedGoalIsNoPath ==
    (pc # "field" /\ ~to_cell_panics(grid) /\ cost_at(grid, cost, endC) = FMAX) =>
        (pc = "done" /\ result = NoPath /\ popped = << >> /\ seen = {})

C3_Witness ==
    /\ pc = "done"
    /\ result = NoPath
    /\ cost_at(grid, cost, endC) = FMAX
    /\ startC # endC
    /\ cost_at(grid, cost, startC) # FMAX
    /\ cost_at(grid, cost, startC) # CostNone

\* C5: to_cell(cell_center(c)) = c for every in-range cell c of a grid with
\* at least one column and one row.
C5_CellCenterRoundTrip ==
    (grid.cols >= 1 /\ grid.rows >= 1) =>
        \A c \in GridCells(grid) : to_cell(grid, cell_center(grid, c)) = c

C5_Witness ==
    /\ pc = "search"
    /\ grid.cols >= 3 /\ grid.rows >= 2
    /\ grid.ox < 0
    /\ startC = <<1, 1>>
    /\ endC = <<2, 0>>

\* C10: on a grid with zero columns or zero rows, find_path ends with the
\* non-result None, never with an error or an abort.
C10_EmptyGridIsNoPath ==
    (pc = "done" /\ (grid.cols = 0 \/ grid.rows = 0)) => result = NoPath

\* C2: after any sequence of add_block_rect and add_polyline_penalty calls,
\* every cell whose centre lies in a registered rectangle (expanded by its
\* margin) holds f32::MAX.
C2_RegisteredCellsAreBlocked ==
    \A i \in DOMAIN cost :
        (\E r \in regs : RectContains(r, cell_center(grid, CellOfIndex(grid, i))))
            => cost[i] = FMAX

-----------------------------------------------------------------------------
(* Claims on the view specification *)

PortsOf(pp, n, kind) == {s \in DOMAIN pp : s.node = n /\ s.kind = kind}
InEdges(n) == {e \in 1..Len(graph.edges) : graph.edges[e][2] = n}
OutEdges(n) == {e \in 1..Len(graph.edges) : graph.edges[e][1] = n}

\* every node has a rectangle and as many ports of each kind as edges
PortsMatchEdges ==
    \A n \in Nodes :
        /\ n \in DOMAIN block_rects
        /\ Cardinality(PortsOf(port_positions, n, "Input")) = Cardinality(InEdges(n))
        /\ Cardinality(PortsOf(port_positions, n, "Output")) = Cardinality(OutEdges(n))

\* C6: when every node has a rectangle and its port counts equal its edge
\* counts, assign_port_lines pushes exactly one PortLine per edge, and both
\* slots of every PortLine are keys of port_positions.
C6_MatchingIsTotal ==
    (passes >= 1 /\ PortsMatchEdges) =>
        /\ Len(produced) = Len(graph.edges)
        /\ \A e \in 1..Len(graph.edges) :
             Cardinality({k \in 1..Len(produced) : produced[k].edge = e}) = 1
        /\ \A k \in 1..Len(produced) :
             /\ produced[k].from \in DOMAIN port_positions
             /\ produced[k].to \in DOMAIN port_positions

C6_Witness ==
    /\ passes >= 1
    /\ PortsMatchEdges
    /\ Len(produced) = 2
    /\ \E n \in Nodes : Cardinality(InEdges(n)) = 2

\* C7: a node with a rectangle of positive width and k incoming (outgoing)
\* edges has exactly the Input (Output) ports 0..k-1, and their x grows
\* strictly with the slot index.
C7_PortsPerEdgeIncreasing ==
    passes >= 1 =>
        \A n \in Nodes \cap DOMAIN block_rects : \A kind \in {"Input", "Output"} :
            RectWidth(block_rects[n]) > 0 =>
                LET k == IF kind = "Input" THEN Cardinality(InEdges(n))
                         ELSE Cardinality(OutEdges(n))
                    x(i) == port_positions[PortSlot(n, i, kind)]
                IN /\ PortsOf(port_positions, n, kind) = {PortSlot(n, i, kind) : i \in 0..(k - 1)}
                   /\ \A i, j \in 0..(k - 1) :
                        i < j => x(i).xn * x(j).xd < x(j).xn * x(i).xd

C7_Witness ==
    /\ passes >= 1
    /\ \E n \in Nodes \cap DOMAIN block_rects :
         /\ RectWidth(block_rects[n]) > 0
         /\ Cardinality(OutEdges(n)) = 2
         /\ Cardinality(PortsOf(port_positions, n, "Output")) = 2

\* C8: after every show() on a view, port_lines holds exactly the PortLines
\* of this pass, one per matched edge: nothing carried over, nothing doubled.
C8_PortLinesAreFresh ==
    passes >= 1 => port_lines = [k \in 1..Len(produced) |-> PortLine(produced[k])]

\* C9: a pass in which the graph or a node rectangle differs from the pass
\* that filled the cache does not draw the cached polylines.
C9_StaleCacheIsNotReused ==
    (passes >= 1 /\ reused) =>
        filled = [graph |-> graph, rects |-> block_rects]

-----------------------------------------------------------------------------
(* Claims on the search loop of find_path *)

\* the cells of a sequence of cells
CellSet(q) == {q[k] : k \in 1..Len(q)}

\* C14: during a run of find_path no cell is popped from the frontier more
\* than once, and no cell that has been popped is on the frontier again.
C14_NoCellExpandedTwice ==
    /\ \A i, j \in 1..Len(popped) : i # j => popped[i] # popped[j]
    /\ \A k \in 1..Len(pending) : pending[k] \notin CellSet(popped)

C14_Witness ==
    /\ pc = "done"
    /\ result.tag = "some"
    /\ ~Uniform
    /\ Len(popped) >= 5
    /\ Len(result.cells) < Len(popped)

\* C17: a returned path is not empty, starts at the centre of the start cell,
\* ends at the centre of the end cell, visits no cell twice, and any two
\* consecutive points are centres of cells one step apart along one axis.
C17_PathIsSimpleAndConnected ==
    result.tag = "some" =>
        LET n == Len(result.path)
        IN /\ n >= 1
           /\ result.path[1] = cell_center(grid, startC)
           /\ result.path[n] = cell_center(grid, endC)
           /\ \A i, j \in 1..n : i # j => result.path[i] # result.path[j]
           /\ \A k \in 1..(n - 1) :
                \E a, b \in GridCells(grid) :
                    /\ result.path[k] = cell_center(grid, a)
                    /\ result.path[k + 1] = cell_center(grid, b)
                    /\ manhattan(a, b) = 1

C17_Witness ==
    /\ result.tag = "some"
    /\ ~Uniform
    /\ Len(result.path) >= 4
    /\ startC[1] # endC[1]
    /\ startC[2] # endC[2]

\* the turn penalty the claim states for the step cur -> n: the fixed
\* penalty exactly when cur has a parent and the heading changes
StatedTurnPen(cur, n) ==
    IF cells[cur].parent # << >>
       /\ get_direction(cells[cur].parent[1], cur) # get_direction(cur, n)
    THEN TurnPenalty
    ELSE 0

\* C18: whenever an iteration of the loop gives a neighbour n of the popped
\* cell c a new cost, that cost is g(c) + field cost of n, plus the turn
\* penalty exactly when c has a parent p and the heading p -> c differs from
\* the heading c -> n; a step out of the start cell carries no penalty.
C18_TurnPenaltyRule ==
    [][(pc = "search" /\ Len(popped') = Len(popped) + 1) =>
          LET cur == popped'[Len(popped')]
          IN \A n \in DOMAIN cells' :
                (cells'[n].parent = <<cur>>
                 /\ (n \notin DOMAIN cells \/ cells[n].g # cells'[n].g)) =>
                    cells'[n].g = FAdd(FAdd(cells[cur].g, cost_at(grid, cost, n)),
                                       StatedTurnPen(cur, n))]_vars

\* C19: as long as every add_polyline_penalty call had a width above zero
\* (margins are never negative), every cell's cost is a number at or above
\* the baseline 1.0 and no call lowers the cost of a cell.
C19_CostNeverBelowBaseline ==
    [][(0 \notin widths') =>
          \A i \in DOMAIN cost :
              /\ cost[i] # NAN /\ cost[i] >= One
              /\ cost'[i] # NAN /\ cost'[i] >= cost[i]]_vars

C19_Witness ==
    /\ nops = 2
    /\ widths = {2}
    /\ regs # {}
    /\ \E i \in DOMAIN cost : cost[i] > One /\ cost[i] < FMAX
    /\ \E i \in DOMAIN cost : cost[i] = FMAX

\* a cell the search may step on: in range and not at f32::MAX
Passable(c) == cost_at(grid, cost, c) # CostNone /\ cost_at(grid, cost, c) # FMAX

\* the cells a chain of 4-connected passable cells leads to from the cells S
RECURSIVE ReachFrom(_)
ReachFrom(S) ==
    LET T == S \cup {n \in GridCells(grid) :
                        Passable(n) /\ \E c \in S : n \in CellSet(cardinal_neighbors(grid, c))}
    IN IF T = S THEN S ELSE ReachFrom(T)

C15_FindPathTerminates == (pc = "search") ~> (pc = "done")

C15_Witness ==
    /\ pc = "done"
    /\ result = NoPath
    /\ Len(popped) >= 3
    /\ pending = << >>

-----------------------------------------------------------------------------
(* The layout specification: get_cfg_layout (src/src/lib.rs) and the cycle  *)
(* breaker / row leveler that examples/basic.rs calls as layout_graph       *)

\* largest number of edges of a graph in the layout specification
MaxLayoutEdges == 3

\* the edges layout graphs are built from: the cycle 1->2->3->1, a chord, an
\* edge against the cycle and a self-loop
LayoutPairs == {<<1, 2>>, <<2, 3>>, <<3, 1>>, <<1, 3>>, <<3, 2>>, <<2, 2>>}

\* a graph with its entry flags (BlockLike::is_entry): no entry, or one
LayoutGraphs ==
    {[edges |-> es, entry |-> en] :
        es \in SeqsUpTo(LayoutPairs, MaxLayoutEdges),
        en \in {{}} \cup {{n} : n \in Nodes}}

\* a loop over the edges that removes none
remove_self_loops_none(g) == [e \in 1..Len(g.edges) |-> g.edges[e]]

\* the clone of the graph after the loop that removes every edge whose two
\* endpoints are equal; a StableGraph keeps the indices of the other edges
remove_self_loops(g) ==
    [e \in {i \in 1..Len(g.edges) : Source(g, i) # Target(g, i)} |-> g.edges[e]]

InitLayout ==
    /\ NoRoute
    /\ NoLayout
    /\ graph \in LayoutGraphs
    /\ style = [width |-> 0]
    /\ layout = [placed |-> {}, xs |-> << >>, y |-> 0]
    /\ block_rects = << >>
    /\ port_positions = << >>
    /\ port_lines = << >>
    /\ cache = [present |-> FALSE, lines |-> << >>]
    /\ passes = 0
    /\ views = 0
    /\ produced = << >>
    /\ reused = FALSE
    /\ filled = << >>

\* get_cfg_layout: clone the graph, remove the self-loops of the clone, hand
\* the clone to the placement stage and return the coordinates of its first
\* component.  The self-loops are added back to the clone afterwards, which
\* is dropped at the return; the caller's graph is borrowed immutably.
GetCfgLayout ==
    /\ ~handed.called
    /\ handed' = [called |-> TRUE, nodes |-> Nodes, edges |-> remove_self_loops(graph)]
    /\ \E lay \in Layouts(graph) : layout' = lay
    /\ UNCHANGED <<graph, style, block_rects, port_positions, port_lines, cache, passes,
                   views, produced, reused, filled, level>>
    /\ UNCHANGED rvars

\* the leveler's edges: self-loops are filtered out before the traversal
LevelEdges(g) ==
    [e \in {i \in 1..Len(g.edges) : Source(g, i) # Target(g, i)} |-> g.edges[e]]

\* the out-edges of u the traversal walks, newest first
LevelOut(es, u) == SortSet({e \in DOMAIN es : es[e][1] = u}, LAMBDA a, b : a > b)

\* a back-edge test that takes every visited node for an open one
IsOpenAncestor_visited(st, v) == v \in st.open \cup st.done

\* the edge points to an already-open ancestor: its target is on the
\* traversal's stack
IsOpenAncestor(st, v) == v \in st.open

\* depth-first traversal; st = [open, done, back, dag, finish]
RECURSIVE Visit(_, _, _)
RECURSIVE VisitEdges(_, _, _, _, _)

\* the edges out[k..] of u: a back-edge is recorded, every other edge joins
\* the DAG edges, and an undiscovered target is visited
VisitEdges(es, u, out, k, st) ==
    IF k > Len(out) THEN st
    ELSE LET e == out[k]
             v == es[e][2]
             st1 == IF IsOpenAncestor(st, v) THEN [st EXCEPT !.back = @ \cup {e}]
                    ELSE IF v \in st.done THEN [st EXCEPT !.dag = @ \cup {e}]
                    ELSE Visit(es, v, [st EXCEPT !.dag = @ \cup {e}])
         IN CHOOSE r \in {VisitEdges(es, u, out, k + 1, s1) : s1 \in {st1}} : TRUE

Visit(es, u, st) ==
    LET st1 == CHOOSE r \in {VisitEdges(es, u, LevelOut(es, u), 1, s0) :
                                s0 \in {[st EXCEPT !.open = @ \cup {u}]}} : TRUE
    IN [st1 EXCEPT !.open = @ \ {u}, !.done = @ \cup {u}, !.finish = Append(@, u)]

\* a processing order that keeps the finish order
TopoOrder_finish(finish) == finish

\* the reverse of the finish order: a topological order of the DAG nodes
TopoOrder(finish) == Reverse(finish)

\* row[v] = max(row[v], row[u] + 1) for every retained DAG edge (u, v), the
\* nodes u taken in the given order
RECURSIVE AssignRows(_, _, _, _)
AssignRows(es, dag, order, rows) ==
    IF order = << >> THEN rows
    ELSE LET u == Head(order)
             rows1 == [v \in DOMAIN rows |->
                          IF \E e \in dag : es[e] = <<u, v>>
                          THEN Max(rows[v], rows[u] + 1) ELSE rows[v]]
         IN CHOOSE r \in {AssignRows(es, dag, Tail(order), r1) : r1 \in {rows1}} : TRUE

\* the leveling result of a graph: "no entry point" without an entry node
Leveling(g) ==
    IF g.entry = {} THEN [NoLevel EXCEPT !.status = "NoEntryPoint"]
    ELSE LET es == LevelEdges(g)
             st == Visit(es, CHOOSE n \in g.entry : TRUE,
                         [open |-> {}, done |-> {}, back |-> {}, dag |-> {},
                          finish |-> << >>])
         IN [status |-> "ok",
             rows |-> AssignRows(es, st.dag, TopoOrder(st.finish), [n \in Nodes |-> 0]),
             back |-> st.back,
             dag |-> st.dag]

\* the leveling pass on the caller's graph
LayoutGraph ==
    /\ level = NoLevel
    /\ \E lv \in {Leveling(graph)} : level' = lv
    /\ UNCHANGED <<handed, vvars, rvars>>

NextLayout == GetCfgLayout \/ LayoutGraph

SpecLayout == InitLayout /\ [][NextLayout]_vars

-----------------------------------------------------------------------------
(* Claims on the layout specification *)

\* C20: get_cfg_layout hands the placement stage a graph without an edge
\* from a node to itself, with every node and every other edge of the input
\* (under its index), and the caller's graph stays as it was.
C20_SelfLoopsFilteredForPlacement ==
    [][handed'.called =>
          /\ graph' = graph
          /\ handed'.nodes = Nodes
          /\ \A e \in DOMAIN handed'.edges : handed'.edges[e][1] # handed'.edges[e][2]
          /\ \A e \in 1..Len(graph.edges) :
                Source(graph, e) # Target(graph, e) =>
                    (e \in DOMAIN handed'.edges /\ handed'.edges[e] = graph.edges[e])]_vars

C20_Witness ==
    /\ handed.called
    /\ Len(graph.edges) = 3
    /\ \E e \in 1..3 : Source(graph, e) = Target(graph, e)
    /\ \E e \in 1..3 : Source(graph, e) # Target(graph, e)
    /\ Cardinality(DOMAIN handed.edges) = 2

\* the endpoints of a set of edges of the leveler's graph
PairsOf(S) == {LevelEdges(graph)[e] : e \in S}

\* the nodes a chain of edges of E leads to from a, a included
ReachedBy(E, a) ==
    {n \in Nodes : \A S \in SUBSET Nodes :
        (a \in S /\ \A p \in E : p[1] \in S => p[2] \in S) => n \in S}

\* no chain of edges of E returns to where it started
Acyclic(E) == \A p \in E : p[1] \notin ReachedBy(E, p[2])

\* C12: with an entry node, the leveling gives every node a row, and for
\* every retained DAG edge (u, v), row[v] >= row[u] + 1.
C12_LevelingIsMonotone ==
    level.status = "ok" =>
        /\ DOMAIN level.rows = Nodes
        /\ \A e \in level.dag :
              level.rows[LevelEdges(graph)[e][2]] >= level.rows[LevelEdges(graph)[e][1]] + 1

C12_Witness ==
    /\ level.status = "ok"
    /\ level.back = {}
    /\ \E v \in Nodes :
          /\ level.rows[v] = 2
          /\ Cardinality({e \in level.dag : LevelEdges(graph)[e][2] = v}) = 2

\* the recorded back-edges are exactly the edges whose target is an ancestor
\* of their source (a chain of retained edges leads from target to source),
\* and the cycle entry->a->b->entry gives the one back-edge b->entry
BackEdgesAreAncestorEdges ==
    /\ level.back = {e \in DOMAIN LevelEdges(graph) :
                        LevelEdges(graph)[e][1]
                            \in ReachedBy(PairsOf(level.dag), LevelEdges(graph)[e][2])}
    /\ \A a, b \in Nodes \ graph.entry : \A en \in graph.entry :
          (a # b /\ Cardinality(DOMAIN LevelEdges(graph)) = 3
           /\ PairsOf(DOMAIN LevelEdges(graph)) = {<<en, a>>, <<a, b>>, <<b, en>>}) =>
              (Cardinality(level.back) = 1 /\ PairsOf(level.back) = {<<b, en>>})

\* C13 as stated: the back-edges are exactly the edges to an open ancestor,
\* and the graph without the recorded back-edges is acyclic.
C13_GraphWithoutBackEdgesIsAcyclic ==
    level.status = "ok" =>
        /\ BackEdgesAreAncestorEdges
        /\ Acyclic(PairsOf(DOMAIN LevelEdges(graph) \ level.back))

\* C13 amended: the back-edges are exactly the edges to an open ancestor,
\* and the edges the traversal discovers, without the recorded back-edges
\* (the retained DAG edges), form an acyclic graph.
C13_RetainedEdgesAreAcyclic ==
    level.status = "ok" =>
        /\ BackEdgesAreAncestorEdges
        /\ level.dag \cup level.back =
              {e \in DOMAIN LevelEdges(graph) :
                  \E en \in graph.entry :
                      LevelEdges(graph)[e][1] \in ReachedBy(PairsOf(DOMAIN LevelEdges(graph)), en)}
        /\ level.dag \cap level.back = {}
        /\ Acyclic(PairsOf(level.dag))

C13_Witness ==
    /\ level.status = "ok"
    /\ graph.edges = <<<<1, 2>>, <<2, 3>>, <<3, 1>>>>
    /\ graph.entry = {1}
    /\ level.back = {3}
    /\ level.dag = {1, 2}

-----------------------------------------------------------------------------
(* Claims on port pairing *)

\* the horizontal centre of the rectangle of node n, doubled
RectCenterX(n) == block_rects[n].minx + block_rects[n].maxx

\* port a lies strictly left of port b
PortLeftOf(a, b) ==
    port_positions[a].xn * port_positions[b].xd
        < port_positions[b].xn * port_positions[a].xd

\* the pairs of lines of this pass whose edges leave the same node, the
\* first towards a target centred strictly left of the second's
OutPairs ==
    {<<a, b>> \in (1..Len(produced)) \X (1..Len(produced)) :
        /\ Source(graph, produced[a].edge) = Source(graph, produced[b].edge)
        /\ RectCenterX(Target(graph, produced[a].edge))
             < RectCenterX(Target(graph, produced[b].edge))}

\* the pairs of lines of this pass whose edges enter the same node, the
\* first from a source centred strictly left of the second's
InPairs ==
    {<<a, b>> \in (1..Len(produced)) \X (1..Len(produced)) :
        /\ Target(graph, produced[a].edge) = Target(graph, produced[b].edge)
        /\ RectCenterX(Source(graph, produced[a].edge))
             < RectCenterX(Source(graph, produced[b].edge))}

\* C21 as stated: of two outgoing edges of a node that both receive a
\* PortLine, the one whose target is centred strictly left gets the output
\* port strictly left; likewise for two incoming edges, their sources and
\* the input ports.
C21_PairingKeepsLeftToRight ==
    passes >= 1 =>
        /\ \A pr \in OutPairs : PortLeftOf(produced[pr[1]].from, produced[pr[2]].from)
        /\ \A pr \in InPairs : PortLeftOf(produced[pr[1]].to, produced[pr[2]].to)

\* C21 amended: the same, for nodes whose rectangle has positive width (the
\* ports of a zero-width rectangle all share one x).
C21_PairingKeepsLeftToRightOnWideNodes ==
    passes >= 1 =>
        /\ \A pr \in OutPairs :
             RectWidth(block_rects[Source(graph, produced[pr[1]].edge)]) > 0
                => PortLeftOf(produced[pr[1]].from, produced[pr[2]].from)
        /\ \A pr \in InPairs :
             RectWidth(block_rects[Target(graph, produced[pr[1]].edge)]) > 0
                => PortLeftOf(produced[pr[1]].to, produced[pr[2]].to)

\* a fan-out from a node of positive width to two targets at different x
C21_Witness ==
    /\ passes >= 1
    /\ \E pr \in OutPairs :
         /\ RectWidth(block_rects[Source(graph, produced[pr[1]].edge)]) > 0
         /\ PortLeftOf(produced[pr[1]].from, produced[pr[2]].from)

-----------------------------------------------------------------------------
(* Claims on the field of the pipeline *)

\* the orders in which a HashMap can yield the keys S
OrdersOf(S) ==
    {o \in [1..Cardinality(S) -> S] : \A i, j \in 1..Cardinality(S) : o[i] = o[j] => i = j}

\* the grid cell of a port position of the field fld
PortCell(fld, pos) == to_cell(fld.grid, <<FloorDiv(pos.xn, pos.xd), pos.y>>)

\* the port s lies in a cell that build_field made impassable
PortBlocked(fld, s) ==
    cost_at(fld.grid, fld.cost, PortCell(fld, port_positions[s])) = FMAX

\* C22: in the field draw_edges builds from the block rectangles (cell size
\* 3, margin 5, scene get_world_rect), the cell of no allocated port (4
\* units outside its node) is impassable.
C22_PortCellsArePassable ==
    passes >= 1 =>
        \A order \in OrdersOf(DOMAIN block_rects) :
            LET fld == build_field(block_rects, order, get_world_rect(block_rects))
            IN \A s \in AllocatedSlots(graph, block_rects) : ~PortBlocked(fld, s)

-----------------------------------------------------------------------------
(* Claims on the grid of a scene *)

\* the positions inside a scene rectangle (Rect::contains), on the half-unit
\* lattice
ScenePoints(scene) == (scene.minx..scene.maxx) \X (scene.miny..scene.maxy)

\* the square of cell c of grid g contains p
InSquare(g, c, p) ==
    /\ g.ox + 2 * g.cell * c[1] <= p[1] /\ p[1] < g.ox + 2 * g.cell * (c[1] + 1)
    /\ g.oy + 2 * g.cell * c[2] <= p[2] /\ p[2] < g.oy + 2 * g.cell * (c[2] + 1)

\* C23: for a grid built by from_scene(scene, cell) with at least one column
\* and row, to_cell(p) of every position p inside the scene is the cell whose
\* square contains p.
C23_GridCoversScene ==
    (grid.cols >= 1 /\ grid.rows >= 1) =>
        \A scene \in Scenes, cell \in CellSizes :
            from_scene(scene, cell) = grid =>
                \A p \in ScenePoints(scene) : InSquare(grid, to_cell(grid, p), p)

-----------------------------------------------------------------------------
(* Claims on port slots *)

\* every node has as many ports of each kind as edges of that direction
PortCountsMatch ==
    \A n \in Nodes :
        /\ Cardinality(PortsOf(port_positions, n, "Input")) = Cardinality(InEdges(n))
        /\ Cardinality(PortsOf(port_positions, n, "Output")) = Cardinality(OutEdges(n))

\* C24: when the port counts match the edge counts, no two PortLines of one
\* assign_port_lines pass share their from slot and no two share their to
\* slot.
C24_SlotsUsedAtMostOnce ==
    (passes >= 1 /\ PortCountsMatch) =>
        \A a, b \in 1..Len(produced) :
            a # b => /\ produced[a].from # produced[b].from
                     /\ produced[a].to # produced[b].to

\* two lines into one node and two lines out of one node, on distinct slots
C24_Witness ==
    /\ passes >= 1
    /\ PortCountsMatch
    /\ \E a, b \in 1..Len(produced) :
         /\ a # b
         /\ produced[a].to.node = produced[b].to.node
         /\ produced[a].to.slot # produced[b].to.slot
         /\ produced[a].from.node = produced[b].from.node
         /\ produced[a].from.slot # produced[b].from.slot

====
